---------------------------- MODULE Spec2Model ----------------------------
(***************************************************************************)
(* A state-machine model of the two programs of the repository:            *)
(*   - public/ubuntu.sh, the interactive host-provisioning script;         *)
(*   - server/index.js, the POST /api/send-email handler.                  *)
(* Strings whose characters matter (the IP address entries) are sequences  *)
(* of one-character strings; other strings are opaque.                     *)
(***************************************************************************)
EXTENDS Integers, Sequences, FiniteSets, TLC

(***************************************************************************)
(* Bounds of the model                                                     *)
(***************************************************************************)
\* most groups of a generated IP entry (SpecIP)
MaxGroups == 5
\* most entries the operator types at the IP prompt
MaxEntries == 2
\* provisioning runs on the same host (SpecTwice)
MaxRuns == 2

(***************************************************************************)
(* Text helpers                                                            *)
(***************************************************************************)
Digits == {"0", "1", "2", "3", "4", "5", "6", "7", "8", "9"}

DigitVal(c) ==
    CASE c = "0" -> 0 [] c = "1" -> 1 [] c = "2" -> 2 [] c = "3" -> 3
      [] c = "4" -> 4 [] c = "5" -> 5 [] c = "6" -> 6 [] c = "7" -> 7
      [] c = "8" -> 8 [] c = "9" -> 9 [] OTHER -> 0

\* the fields of a line cut at every "." (IFS='.' word splitting, awk -F.)
RECURSIVE SplitDot(_)
SplitDot(s) ==
    IF \A i \in 1..Len(s) : s[i] # "."
    THEN <<s>>
    ELSE LET k == CHOOSE i \in 1..Len(s) :
                      s[i] = "." /\ \A j \in 1..(i - 1) : s[j] # "."
         IN  <<SubSeq(s, 1, k - 1)>> \o SplitDot(SubSeq(s, k + 1, Len(s)))

\* awk's $i: the i-th field, empty when the line has fewer fields
Field(line, i) ==
    LET f == SplitDot(line) IN IF i <= Len(f) THEN f[i] ELSE <<>>

RECURSIVE JoinDot(_)
JoinDot(groups) ==
    IF Len(groups) = 0 THEN <<>>
    ELSE IF Len(groups) = 1 THEN groups[1]
    ELSE groups[1] \o <<".">> \o JoinDot(Tail(groups))

\* the value of a digit string read in base b
RECURSIVE BaseValue(_, _)
BaseValue(g, b) ==
    IF Len(g) = 0 THEN 0
    ELSE BaseValue(SubSeq(g, 1, Len(g) - 1), b) * b + DigitVal(g[Len(g)])

\* ^[0-9]{1,3}\.[0-9]{1,3}\.[0-9]{1,3}\.[0-9]{1,3}$
MatchesQuad(ip) ==
    LET g == SplitDot(ip)
    IN  /\ Len(g) = 4
        /\ \A i \in 1..4 : /\ Len(g[i]) \in 1..3
                           /\ \A j \in 1..Len(g[i]) : g[i][j] \in Digits

\* [[ g -le 255 ]]: bash evaluates g as an arithmetic constant, so a leading
\* 0 makes it octal, and an octal constant holding 8 or 9 is an error that
\* makes the test fail
AtMost255(g) ==
    IF Len(g) > 1 /\ g[1] = "0"
    THEN /\ \A j \in 1..Len(g) : g[j] \notin {"8", "9"}
         /\ BaseValue(g, 8) <= 255
    ELSE BaseValue(g, 10) <= 255

validate_ip(ip) ==
    /\ MatchesQuad(ip)
    /\ \A i \in 1..4 : AtMost255(SplitDot(ip)[i])

(***************************************************************************)
(* Program constants (ubuntu.sh)                                           *)
(***************************************************************************)
\* local max_attempts=3
max_attempts == 3
\* sleep 5
RetryDelay == 5

packages == <<"bind9", "apache2", "mysql-server", "apache2-utils",
              "phpmyadmin", "samba">>

services == <<"bind9", "apache2", "mysql", "smbd">>

\* the prompts, in the order of the six get_input calls
Fields == <<"user_ip", "user_domain", "mysql_root_password",
            "phpmyadmin_password", "samba_username", "samba_password">>

\* files the script overwrites with cat > file
Targets == {"/etc/resolv.conf", "/etc/bind/named.conf.default-zones",
            "/etc/bind/smk.db", "/etc/bind/smk.ip",
            "/etc/apache2/sites-available/000-default.conf",
            "/var/www/index.php", "/etc/samba/smb.conf"}

\* the file the script appends to with echo >> file
ApacheConf == "/etc/apache2/apache2.conf"

\* the arguments of the four backup_config calls
BackedUp == <<"/etc/resolv.conf", "/etc/bind/named.conf.default-zones",
              "/etc/apache2/sites-available/000-default.conf",
              "/etc/samba/smb.conf">>

\* the messages handed to handle_error
ErrSudo == "Script must be run with sudo"
ErrDpkg == "Failed to fix interrupted dpkg"
ErrUpdate == "Failed to update system"
ErrUpgrade == "Failed to upgrade system"
ErrRepo == "Failed to add universe repository"
ErrBackup == "Failed to backup file $file"
ErrInstall == "Failed to install $package after $max_attempts attempts"

\* the line log prints on stdout for a rejected entry (its date has no ".")
LogInvalid == <<"[date] Invalid input, please try again">>

IncludeLine == <<"Include /etc/phpmyadmin/apache.conf">>

(***************************************************************************)
(* The host's files                                                        *)
(***************************************************************************)
\* a path: the file itself (stamp 0) or its copy file.backup.<stamp>
Path(f, stamp) == [file |-> f, stamp |-> stamp]

Paths == {Path(f, t) : f \in Targets \cup {ApacheConf}, t \in 0..MaxRuns}

Content(kind, ip, domain, user, serial, aux) ==
    [kind |-> kind, ip |-> ip, domain |-> domain, user |-> user,
     serial |-> serial, aux |-> aux]

NoFile == Content("absent", <<>>, "", "", "", <<>>)

\* what a file holds before the script first runs
OldContent(f) == Content("old", <<>>, f, "", "", <<>>)

\* the operator's answers to the five prompts that have no validation
Answers == [user_domain |-> "example.com", mysql_root_password |-> "rootpw",
            phpmyadmin_password |-> "pmapw", samba_username |-> "smbuser",
            samba_password |-> "smbpw"]

\* date +%Y%m%d on the day of the runs
Today == "20261101"

(***************************************************************************)
(* JSON values of a request body (index.js)                                *)
(***************************************************************************)
JAbsent == [t |-> "undefined", s |-> ""]
JNull == [t |-> "null", s |-> ""]
JStr(s) == [t |-> "string", s |-> s]
JNum(s) == [t |-> "number", s |-> s]
JBool(s) == [t |-> "boolean", s |-> s]
JArr == [t |-> "array", s |-> "[]"]

JsonValues == {JAbsent, JNull, JStr(""), JStr("hi"), JNum("0"), JNum("5"),
               JBool("false"), JBool("true"), JArr}

\* JavaScript's truthiness, as !x tests it
Truthy(v) ==
    /\ v.t \notin {"undefined", "null"}
    /\ ~(v.t = "string" /\ v.s = "")
    /\ ~(v.t = "number" /\ v.s = "0")
    /\ ~(v.t = "boolean" /\ v.s = "false")

\* whether x.replace is a function
HasReplace(v) == v.t = "string"

(***************************************************************************)
(* State                                                                   *)
(***************************************************************************)
VARIABLES
    pc,            \* position of the script
    isRoot,        \* id -u is 0
    typed,         \* the entries the operator types at the IP prompt
    ttyPos,        \* entries read from the terminal so far in this run
    captured,      \* stdout of the running get_input, as lines
    user_ip,       \* $user_ip, as lines
    sh,            \* the other five shell variables
    collected,     \* the variables assigned so far, in order
    mutated,       \* a host-changing command has run in this run
    exitCode,      \* -1 while running
    lastError,     \* the message of handle_error
    warnings,      \* WARNING lines logged in this run
    summary,       \* the final summary has been logged
    pkgIdx,        \* index of $package in packages
    installed,     \* result of check_package_installed for $package
    repaired,      \* dpkg --configure -a has run for $package
    attempt,       \* install_package's local attempt
    tries,         \* apt-get install runs of the current install_package
    slept,         \* time slept by the current install_package
    svcIdx,        \* index of $service in services
    fs,            \* the files: Paths -> content
    fs0,           \* the files when this run started
    trace,         \* the render and reconcile steps of this run, in order
    run,           \* number of the run
    fsFirst,       \* the files when the first run completed
    body,          \* req.body of the request
    mpc,           \* position of the request handler
    sendMailCalls, \* calls of transporter.sendMail
    responses      \* responses sent for the request

scriptVars == <<pc, isRoot, typed, ttyPos, captured, user_ip, sh, collected,
                mutated, exitCode, lastError, warnings, summary, pkgIdx,
                installed, repaired, attempt, tries, slept, svcIdx, fs, fs0,
                trace, run, fsFirst>>

ioVars == <<typed, ttyPos, captured, user_ip, sh, collected>>

loopVars == <<pkgIdx, installed, repaired, attempt, tries, slept, svcIdx>>

runVars == <<isRoot, fs0, run, fsFirst>>

mailVars == <<body, mpc, sendMailCalls, responses>>

vars == <<scriptVars, mailVars>>

(***************************************************************************)
(* Initial states                                                          *)
(***************************************************************************)
IpGood == <<"1", "9", "2", ".", "1", "6", "8", ".", "1", ".", "1", "0">>
IpBig == <<"2", "5", "6", ".", "1", ".", "1", ".", "1">>

\* what the operator may type at the IP prompt of a provisioning run: the
\* prompt comes back only after a rejected entry
TypedMain ==
    {t \in UNION {[1..n -> {IpGood, IpBig}] : n \in 1..MaxEntries} :
        \A i \in 1..(Len(t) - 1) : t[i] = IpBig}

NoError == [msg |-> "", arg |-> ""]

NoBody == [name |-> JAbsent, email |-> JAbsent, message |-> JAbsent]

UnsetSh == [f \in DOMAIN Answers |-> ""]

InitFiles(pre) ==
    [p \in Paths |->
        IF p.stamp = 0 /\ p.file \in pre \cup {ApacheConf}
        THEN OldContent(p.file) ELSE NoFile]

InitScript(entries) ==
    /\ pc = "start"
    /\ isRoot \in BOOLEAN
    /\ typed \in entries
    /\ ttyPos = 0
    /\ captured = <<>>
    /\ user_ip = <<>>
    /\ sh = UnsetSh
    /\ collected = <<>>
    /\ mutated = FALSE
    /\ exitCode = -1
    /\ lastError = NoError
    /\ warnings = 0
    /\ summary = FALSE
    /\ pkgIdx = 1
    /\ installed = FALSE
    /\ repaired = FALSE
    /\ attempt = 0
    /\ tries = 0
    /\ slept = 0
    /\ svcIdx = 1
    /\ \E pre \in SUBSET Targets : fs = InitFiles(pre)
    /\ fs0 = fs
    /\ trace = <<>>
    /\ run = 1
    /\ fsFirst = fs

InitMailIdle ==
    /\ body = NoBody
    /\ mpc = "idle"
    /\ sendMailCalls = 0
    /\ responses = <<>>

Init == InitScript(TypedMain) /\ InitMailIdle

(***************************************************************************)
(* ubuntu.sh: helpers                                                      *)
(***************************************************************************)
Err(msg, arg) == [msg |-> msg, arg |-> arg]

\* log "ERROR: $1"; exit 1
handle_error(msg, arg) ==
    /\ pc' = "exited"
    /\ exitCode' = 1
    /\ lastError' = Err(msg, arg)
    /\ UNCHANGED <<warnings, summary>>

\* go on to the next command, having logged w WARNING lines
Goto(next, w) ==
    /\ pc' = next
    /\ warnings' = warnings + w
    /\ UNCHANGED <<exitCode, lastError, summary>>

Event(stage, what) == [stage |-> stage, what |-> what]

(***************************************************************************)
(* ubuntu.sh: privilege check and input collection                         *)
(***************************************************************************)
\* lines 15-17 and 100
CheckRoot ==
    /\ pc = "start"
    /\ IF isRoot THEN Goto("get_ip", 0) ELSE handle_error(ErrSudo, "")
    /\ UNCHANGED <<ioVars, mutated, loopVars, fs, trace, runVars, mailVars>>

\* get_input never calling its validation function
get_input_ip_Unvalidated ==
    /\ pc = "get_ip"
    /\ ttyPos < Len(typed)
    /\ ttyPos' = ttyPos + 1
    /\ user_ip' = captured \o <<typed[ttyPos + 1]>>
    /\ captured' = <<>>
    /\ collected' = Append(collected, Fields[1])
    /\ Goto("get_plain", 0)
    /\ UNCHANGED <<typed, sh, mutated, loopVars, fs, trace, runVars, mailVars>>

\* one turn of get_input's loop for user_ip=$(get_input ... validate_ip):
\* read an entry; a rejected entry logs a line on stdout, which the command
\* substitution captures; an accepted one is echoed and ends the call
get_input_ip ==
    /\ pc = "get_ip"
    /\ ttyPos < Len(typed)
    /\ LET input == typed[ttyPos + 1]
       IN  /\ ttyPos' = ttyPos + 1
           /\ IF validate_ip(input)
              THEN /\ user_ip' = captured \o <<input>>
                   /\ captured' = <<>>
                   /\ collected' = Append(collected, Fields[1])
                   /\ Goto("get_plain", 0)
              ELSE /\ captured' = Append(captured, LogInvalid)
                   /\ UNCHANGED <<user_ip, collected>>
                   /\ Goto("get_ip", 0)
    /\ UNCHANGED <<typed, sh, mutated, loopVars, fs, trace, runVars, mailVars>>

\* a get_input call without validation function: the entry read is echoed
get_input_plain ==
    /\ pc = "get_plain"
    /\ LET field == Fields[Len(collected) + 1]
       IN  /\ sh' = [sh EXCEPT ![field] = Answers[field]]
           /\ collected' = Append(collected, field)
           /\ Goto(IF Len(collected) + 1 = Len(Fields)
                   THEN "dpkg_fix" ELSE "get_plain", 0)
    /\ UNCHANGED <<typed, ttyPos, captured, user_ip, mutated, loopVars, fs,
                   trace, runVars, mailVars>>

(***************************************************************************)
(* ubuntu.sh: system preparation                                           *)
(***************************************************************************)
\* line 113
DpkgConfigure ==
    /\ pc = "dpkg_fix"
    /\ mutated' = TRUE
    /\ \E ok \in BOOLEAN :
          IF ok THEN Goto("apt_clean", 0) ELSE handle_error(ErrDpkg, "")
    /\ UNCHANGED <<ioVars, loopVars, fs, trace, runVars, mailVars>>

\* lines 117-122: their exit statuses are not looked at
AptCleanup ==
    /\ pc = "apt_clean"
    /\ \E ok \in BOOLEAN : Goto("apt_update", 0)
    /\ mutated' = TRUE
    /\ UNCHANGED <<ioVars, loopVars, fs, trace, runVars, mailVars>>

\* lines 125-132
AptUpdate ==
    /\ pc = "apt_update"
    /\ \E first \in BOOLEAN, repair \in BOOLEAN, second \in BOOLEAN :
          IF first THEN Goto("apt_upgrade", 0)
          ELSE IF second THEN Goto("apt_upgrade", 1)
          ELSE /\ handle_error(ErrUpdate, "")
    /\ mutated' = TRUE
    /\ UNCHANGED <<ioVars, loopVars, fs, trace, runVars, mailVars>>

\* lines 135-139
AptUpgrade ==
    /\ pc = "apt_upgrade"
    /\ \E first \in BOOLEAN, repair \in BOOLEAN, second \in BOOLEAN :
          IF first THEN Goto("add_repo", 0)
          ELSE IF second THEN Goto("add_repo", 1)
          ELSE handle_error(ErrUpgrade, "")
    /\ mutated' = TRUE
    /\ UNCHANGED <<ioVars, loopVars, fs, trace, runVars, mailVars>>

\* line 142
AddUniverse ==
    /\ pc = "add_repo"
    /\ \E ok \in BOOLEAN :
          IF ok THEN Goto("debconf", 0) ELSE handle_error(ErrRepo, "")
    /\ mutated' = TRUE
    /\ UNCHANGED <<ioVars, loopVars, fs, trace, runVars, mailVars>>

\* lines 145-150: their exit statuses are not looked at
DebconfSelections ==
    /\ pc = "debconf"
    /\ \E ok \in BOOLEAN : Goto("pkg_loop", 0)
    /\ mutated' = TRUE
    /\ UNCHANGED <<ioVars, loopVars, fs, trace, runVars, mailVars>>

(***************************************************************************)
(* ubuntu.sh: the package loop and install_package                         *)
(***************************************************************************)
\* dpkg -l "$1": what the package database answers
check_package_installed(p) == BOOLEAN

\* the top of the for loop, lines 154-155: the next package is checked, or
\* the list is finished
ForPackage ==
    /\ pc = "pkg_loop"
    /\ IF pkgIdx > Len(packages)
       THEN /\ Goto("backup", 0)
            /\ installed' = FALSE
            /\ UNCHANGED pkgIdx
       ELSE \E isInstalled \in check_package_installed(packages[pkgIdx]) :
               /\ installed' = isInstalled
               /\ IF isInstalled
                  THEN /\ pkgIdx' = pkgIdx + 1
                       /\ Goto("pkg_loop", 0)
                  ELSE /\ UNCHANGED pkgIdx
                       /\ Goto("pkg_dpkg", 0)
    /\ repaired' = FALSE
    /\ attempt' = 0
    /\ tries' = 0
    /\ slept' = 0
    /\ UNCHANGED <<ioVars, mutated, svcIdx, fs, trace, runVars, mailVars>>

\* line 157, then the call of install_package and its lines 83-85
PackageDpkgFix ==
    /\ pc = "pkg_dpkg"
    /\ \E ok \in BOOLEAN : Goto("install_try", 0)
    /\ repaired' = TRUE
    /\ attempt' = 1
    /\ UNCHANGED <<pkgIdx, installed, tries, slept, svcIdx>>
    /\ mutated' = TRUE
    /\ UNCHANGED <<ioVars, fs, trace, runVars, mailVars>>

\* lines 87-93: the loop test has passed; one apt-get install
InstallAttempt ==
    /\ pc = "install_try"
    /\ tries' = tries + 1
    /\ \E ok \in BOOLEAN :
          IF ok
          THEN /\ pkgIdx' = pkgIdx + 1
               /\ UNCHANGED attempt
               /\ Goto("pkg_loop", 0)
          ELSE /\ attempt' = attempt + 1
               /\ UNCHANGED pkgIdx
               /\ Goto("install_sleep", 0)
    /\ UNCHANGED <<installed, repaired, slept, svcIdx>>
    /\ mutated' = TRUE
    /\ UNCHANGED <<ioVars, fs, trace, runVars, mailVars>>

\* install_package ending with return 1 where it has exit 1
InstallSleep_Returns ==
    /\ pc = "install_sleep"
    /\ slept' = slept + RetryDelay
    /\ IF attempt <= max_attempts
       THEN Goto("install_try", 0) /\ UNCHANGED pkgIdx
       ELSE Goto("pkg_loop", 0) /\ pkgIdx' = pkgIdx + 1
    /\ UNCHANGED <<installed, repaired, attempt, tries, svcIdx>>
    /\ UNCHANGED <<ioVars, mutated, fs, trace, runVars, mailVars>>

\* install_package testing attempt -lt max_attempts
InstallSleep_OffByOne ==
    /\ pc = "install_sleep"
    /\ slept' = slept + RetryDelay
    /\ IF attempt < max_attempts
       THEN Goto("install_try", 0)
       ELSE handle_error(ErrInstall, packages[pkgIdx])
    /\ UNCHANGED <<pkgIdx, installed, repaired, attempt, tries, svcIdx>>
    /\ UNCHANGED <<ioVars, mutated, fs, trace, runVars, mailVars>>

\* line 94, then the loop test of line 87 and, when it fails, line 96
InstallSleep ==
    /\ pc = "install_sleep"
    /\ slept' = slept + RetryDelay
    /\ IF attempt <= max_attempts
       THEN Goto("install_try", 0)
       ELSE handle_error(ErrInstall, packages[pkgIdx])
    /\ UNCHANGED <<pkgIdx, installed, repaired, attempt, tries, svcIdx>>
    /\ UNCHANGED <<ioVars, mutated, fs, trace, runVars, mailVars>>

(***************************************************************************)
(* ubuntu.sh: backups and rendered files                                   *)
(***************************************************************************)
\* backup_config without || handle_error after cp
backup_config_CopyUnchecked ==
    /\ pc = "backup"
    /\ LET file == BackedUp[Len(trace) + 1]
           next == IF Len(trace) + 1 = Len(BackedUp)
                   THEN "render_resolv" ELSE "backup"
       IN  /\ trace' = Append(trace, Event("backup", file))
           /\ Goto(next, 0)
           /\ IF fs[Path(file, 0)] # NoFile
              THEN \E ok \in BOOLEAN :
                      IF ok
                      THEN fs' = [fs EXCEPT ![Path(file, run)] =
                                               fs[Path(file, 0)]]
                      ELSE UNCHANGED fs
              ELSE UNCHANGED fs
    /\ mutated' = TRUE
    /\ UNCHANGED <<ioVars, loopVars, runVars, mailVars>>

\* the next backup_config call of lines 163-166: a file that exists is
\* copied to file.backup.<time of this run>, and a failed copy is fatal
backup_config ==
    /\ pc = "backup"
    /\ LET file == BackedUp[Len(trace) + 1]
           next == IF Len(trace) + 1 = Len(BackedUp)
                   THEN "render_resolv" ELSE "backup"
       IN  /\ trace' = Append(trace, Event("backup", file))
           /\ IF fs[Path(file, 0)] # NoFile
              THEN \E ok \in BOOLEAN :
                      IF ok
                      THEN /\ fs' = [fs EXCEPT ![Path(file, run)] =
                                                   fs[Path(file, 0)]]
                           /\ Goto(next, 0)
                      ELSE /\ UNCHANGED fs
                           /\ handle_error(ErrBackup, file)
              ELSE /\ UNCHANGED fs
                   /\ Goto(next, 0)
    /\ mutated' = TRUE
    /\ UNCHANGED <<ioVars, loopVars, runVars, mailVars>>

\* awk -F. '{print $3"."$2"."$1}', line by line
ReversedIp(ip) ==
    [i \in 1..Len(ip) |->
        JoinDot(<<Field(ip[i], 3), Field(ip[i], 2), Field(ip[i], 1)>>)]

\* awk -F. '{print $4}', line by line
LastOctet(ip) == [i \in 1..Len(ip) |-> Field(ip[i], 4)]

\* the text each here-document expands to
Rendered(f) ==
    CASE f = "/etc/resolv.conf" ->
           Content("resolv.conf", user_ip, sh.user_domain, "", "", <<>>)
      [] f = "/etc/bind/named.conf.default-zones" ->
           Content("default-zones", <<>>, sh.user_domain, "", "",
                   ReversedIp(user_ip))
      [] f = "/etc/bind/smk.db" ->
           Content("smk.db", user_ip, sh.user_domain, "", Today, <<>>)
      [] f = "/etc/bind/smk.ip" ->
           Content("smk.ip", <<>>, sh.user_domain, "", Today,
                   LastOctet(user_ip))
      [] f = "/etc/apache2/sites-available/000-default.conf" ->
           Content("vhost", user_ip, sh.user_domain, "", "", <<>>)
      [] f = "/var/www/index.php" ->
           Content("index.php", <<>>, sh.user_domain, "", "", <<>>)
      [] f = "/etc/samba/smb.conf" ->
           Content("smb.conf", <<>>, "", sh.samba_username, "",
                   <<<<"$(hostname)">>>>)

\* cat > f <<EOL ... EOL
WriteFile(from, f, next) ==
    /\ pc = from
    /\ fs' = [fs EXCEPT ![Path(f, 0)] = Rendered(f)]
    /\ trace' = Append(trace, Event("write", f))
    /\ Goto(next, 0)
    /\ mutated' = TRUE
    /\ UNCHANGED <<ioVars, loopVars, runVars, mailVars>>

\* a command that changes the host outside the modelled files; its exit
\* status is not looked at
Command(from, what, next) ==
    /\ pc = from
    /\ \E ok \in BOOLEAN : Goto(next, 0)
    /\ trace' = Append(trace, Event("run", what))
    /\ mutated' = TRUE
    /\ UNCHANGED <<ioVars, loopVars, fs, runVars, mailVars>>

\* lines 169-174
WriteResolvConf ==
    WriteFile("render_resolv", "/etc/resolv.conf", "render_zones")

\* lines 177-211
WriteDefaultZones ==
    WriteFile("render_zones", "/etc/bind/named.conf.default-zones",
              "render_smkdb")

\* lines 214-232
WriteForwardZone ==
    WriteFile("render_smkdb", "/etc/bind/smk.db", "render_smkip")

\* lines 235-246
WriteReverseZone ==
    WriteFile("render_smkip", "/etc/bind/smk.ip", "render_vhost")

\* lines 249-264
WriteVhost ==
    WriteFile("render_vhost",
              "/etc/apache2/sites-available/000-default.conf", "index_php")

(***************************************************************************)
(* ubuntu.sh: the landing page, accounts, modules and services             *)
(***************************************************************************)
\* lines 267-283
WriteIndexPhp ==
    WriteFile("index_php", "/var/www/index.php", "perms")

\* lines 286-288
NormalizePermissions ==
    Command("perms", "chown-chmod", "useradd")

\* the script without its cat > /etc/samba/smb.conf
CreateAccount_NoSmbConf ==
    Command("useradd", "useradd-passwd", "smbpasswd")

\* lines 291-292
CreateAccount ==
    Command("useradd", "useradd-passwd", "render_smb")

\* lines 294-311
WriteSmbConf ==
    WriteFile("render_smb", "/etc/samba/smb.conf", "smbpasswd")

\* line 314
SetSambaPassword ==
    Command("smbpasswd", "smbpasswd", "pma_include")

\* line 317: echo "Include ..." >> apache2.conf
AppendInclude ==
    /\ pc = "pma_include"
    /\ LET old == fs[Path(ApacheConf, 0)]
       IN  fs' = [fs EXCEPT ![Path(ApacheConf, 0)] =
                     Content("apache2.conf", <<>>, "", "", "",
                             Append(old.aux, IncludeLine))]
    /\ trace' = Append(trace, Event("append", ApacheConf))
    /\ Goto("a2en", 0)
    /\ mutated' = TRUE
    /\ UNCHANGED <<ioVars, loopVars, runVars, mailVars>>

\* lines 320-322
EnableSiteAndModules ==
    Command("a2en", "a2ensite-a2enmod", "svc_restart")

\* systemctl restart ... || handle_error, as the installer does
RestartService_Fatal ==
    /\ pc = "svc_restart"
    /\ \E ok \in BOOLEAN :
          IF ok THEN Goto("svc_enable", 0)
          ELSE handle_error("Failed to restart $service", services[svcIdx])
    /\ trace' = Append(trace, Event("restart", services[svcIdx]))
    /\ mutated' = TRUE
    /\ UNCHANGED <<ioVars, loopVars, fs, runVars, mailVars>>

\* line 327
RestartService ==
    /\ pc = "svc_restart"
    /\ \E ok \in BOOLEAN : Goto("svc_enable", IF ok THEN 0 ELSE 1)
    /\ trace' = Append(trace, Event("restart", services[svcIdx]))
    /\ mutated' = TRUE
    /\ UNCHANGED <<ioVars, loopVars, fs, runVars, mailVars>>

\* a failed enable leaving the for loop
EnableService_Break ==
    /\ pc = "svc_enable"
    /\ \E ok \in BOOLEAN :
          Goto(IF svcIdx = Len(services) \/ ~ok THEN "test" ELSE "svc_restart",
               IF ok THEN 0 ELSE 1)
    /\ svcIdx' = svcIdx + 1
    /\ trace' = Append(trace, Event("enable", services[svcIdx]))
    /\ UNCHANGED <<pkgIdx, installed, repaired, attempt, tries, slept>>
    /\ mutated' = TRUE
    /\ UNCHANGED <<ioVars, fs, runVars, mailVars>>

\* line 328, then the next turn of the for loop
EnableService ==
    /\ pc = "svc_enable"
    /\ \E ok \in BOOLEAN :
          Goto(IF svcIdx = Len(services) THEN "test" ELSE "svc_restart",
               IF ok THEN 0 ELSE 1)
    /\ svcIdx' = svcIdx + 1
    /\ trace' = Append(trace, Event("enable", services[svcIdx]))
    /\ UNCHANGED <<pkgIdx, installed, repaired, attempt, tries, slept>>
    /\ mutated' = TRUE
    /\ UNCHANGED <<ioVars, fs, runVars, mailVars>>

\* lines 332-334
TestConfiguration ==
    /\ pc = "test"
    /\ \E apacheOk \in BOOLEAN, bindOk \in BOOLEAN :
          Goto("summary",
               (IF apacheOk THEN 0 ELSE 1) + (IF bindOk THEN 0 ELSE 1))
    /\ trace' = trace \o <<Event("test", "apache2ctl configtest"),
                           Event("test", "named-checkconf")>>
    /\ UNCHANGED <<ioVars, mutated, loopVars, fs, runVars, mailVars>>

\* lines 336-341 and the end of the script
Summary ==
    /\ pc = "summary"
    /\ pc' = "done"
    /\ summary' = TRUE
    /\ exitCode' = 0
    /\ UNCHANGED <<lastError, warnings>>
    /\ UNCHANGED <<ioVars, mutated, loopVars, fs, trace, runVars, mailVars>>

\* the operator runs the script again on the same host, the same day, and
\* types the same entries
Rerun ==
    /\ pc = "done"
    /\ run < MaxRuns
    /\ pc' = "start"
    /\ run' = run + 1
    /\ fsFirst' = IF run = 1 THEN fs ELSE fsFirst
    /\ fs0' = fs
    /\ ttyPos' = 0
    /\ captured' = <<>>
    /\ user_ip' = <<>>
    /\ sh' = UnsetSh
    /\ collected' = <<>>
    /\ mutated' = FALSE
    /\ exitCode' = -1
    /\ lastError' = NoError
    /\ warnings' = 0
    /\ summary' = FALSE
    /\ pkgIdx' = 1
    /\ installed' = FALSE
    /\ repaired' = FALSE
    /\ attempt' = 0
    /\ tries' = 0
    /\ slept' = 0
    /\ svcIdx' = 1
    /\ trace' = <<>>
    /\ UNCHANGED <<isRoot, typed, fs, mailVars>>

(***************************************************************************)
(* index.js: app.post('/api/send-email')                                   *)
(***************************************************************************)
Response(status, json) == [status |-> status, json |-> json]

Bodies == [name : JsonValues, email : JsonValues, message : JsonValues]

InitMail ==
    /\ body \in Bodies
    /\ mpc = "received"
    /\ sendMailCalls = 0
    /\ responses = <<>>

\* the script is not running while the handler is looked at
InitScriptOff ==
    /\ pc = "off"
    /\ isRoot = TRUE
    /\ typed = <<IpGood>>
    /\ ttyPos = 0
    /\ captured = <<>>
    /\ user_ip = <<>>
    /\ sh = UnsetSh
    /\ collected = <<>>
    /\ mutated = FALSE
    /\ exitCode = -1
    /\ lastError = NoError
    /\ warnings = 0
    /\ summary = FALSE
    /\ pkgIdx = 1
    /\ installed = FALSE
    /\ repaired = FALSE
    /\ attempt = 0
    /\ tries = 0
    /\ slept = 0
    /\ svcIdx = 1
    /\ fs = InitFiles({})
    /\ fs0 = fs
    /\ trace = <<>>
    /\ run = 1
    /\ fsFirst = fs

\* lines 23-35, up to the await: the 400 answer, or the mail options are
\* built and sendMail is called.  message.replace is evaluated outside the
\* try block: when message has no replace method the async handler rejects;
\* Express 4 then sends nothing, Express 5 answers through its error handler
HandlePost ==
    /\ mpc = "received"
    /\ IF ~Truthy(body.name) \/ ~Truthy(body.email) \/ ~Truthy(body.message)
       THEN /\ responses' = <<Response(400, "error: Missing fields")>>
            /\ mpc' = "finished"
            /\ UNCHANGED sendMailCalls
       ELSE IF ~HasReplace(body.message)
       THEN /\ mpc' = "rejected"
            /\ responses' \in {<<>>, <<Response(500, "Internal Server Error")>>}
            /\ UNCHANGED sendMailCalls
       ELSE /\ sendMailCalls' = sendMailCalls + 1
            /\ mpc' = "awaiting"
            /\ UNCHANGED responses
    /\ UNCHANGED <<body, scriptVars>>

\* lines 35-40: the promise of sendMail settles
SendMailSettles ==
    /\ mpc = "awaiting"
    /\ \E sent \in BOOLEAN :
          responses' = Append(responses,
              IF sent THEN Response(200, "success: true")
              ELSE Response(500, "error: Failed to send email"))
    /\ mpc' = "finished"
    /\ UNCHANGED <<body, sendMailCalls, scriptVars>>

(***************************************************************************)
(* Specifications                                                          *)
(***************************************************************************)
Collect == CheckRoot \/ get_input_ip \/ get_input_plain

Prepare ==
    \/ DpkgConfigure
    \/ AptCleanup
    \/ AptUpdate
    \/ AptUpgrade
    \/ AddUniverse
    \/ DebconfSelections

Install == ForPackage \/ PackageDpkgFix \/ InstallAttempt \/ InstallSleep

Configure ==
    \/ backup_config
    \/ WriteResolvConf
    \/ WriteDefaultZones
    \/ WriteForwardZone
    \/ WriteReverseZone
    \/ WriteVhost
    \/ WriteIndexPhp
    \/ NormalizePermissions
    \/ CreateAccount
    \/ WriteSmbConf
    \/ SetSambaPassword
    \/ AppendInclude
    \/ EnableSiteAndModules

Finish == RestartService \/ EnableService \/ TestConfiguration \/ Summary

\* one run of ubuntu.sh
Next == Collect \/ Prepare \/ Install \/ Configure \/ Finish

Spec == Init /\ [][Next]_vars

\* ubuntu.sh run again on the host it has configured
NextTwice == Next \/ Rerun

SpecTwice == Init /\ [][NextTwice]_vars

\* validate_ip and get_input over generated entries
GroupPool == {<<>>, <<"0", "8">>, <<"0", "1", "0">>, <<"2", "5", "5">>,
              <<"2", "5", "6">>, <<"1", "2", "3", "4">>, <<"a">>}

\* the entries of three to most groups taken from GroupPool
IpPool(most) ==
    {JoinDot(g) : g \in UNION {[1..n -> GroupPool] : n \in 3..most}}

\* one generated entry, followed or not by an entry that is accepted
TypedIP(most) ==
    {<<e>> : e \in IpPool(most)} \cup {<<e, IpGood>> : e \in IpPool(most)}

InitIP ==
    /\ InitScript(TypedIP(MaxGroups))
    /\ isRoot
    /\ fs = InitFiles({})
    /\ InitMailIdle

NextIP == CheckRoot \/ get_input_ip

SpecIP == InitIP /\ [][NextIP]_vars

\* one request to the mail relay
NextMail == HandlePost \/ SendMailSettles

InitRelay == InitMail /\ InitScriptOff

SpecMail == InitRelay /\ [][NextMail]_vars

(***************************************************************************)
(* Properties                                                              *)
(***************************************************************************)
InstallPcs == {"pkg_dpkg", "install_try", "install_sleep"}

Exhausted ==
    /\ lastError.msg = ErrInstall
    /\ pkgIdx \in 1..Len(packages)
    /\ lastError.arg = packages[pkgIdx]

\* C1: a package that check_package_installed reports installed never
\* reaches install_package; three failed apt-get install runs for a package
\* end the run with exit code 1, with no file backed up or written and no
\* later package looked at.
C1_InstalledSkippedExhaustionFatal ==
    /\ pc \in InstallPcs => ~installed
    /\ attempt > max_attempts =>
          /\ pc \in {"install_sleep", "exited"}
          /\ tries = max_attempts
          /\ fs = fs0
          /\ trace = <<>>
          /\ pc = "exited" => exitCode = 1 /\ Exhausted
    /\ Exhausted => pc = "exited" /\ attempt > max_attempts

C1_Witness ==
    /\ pc = "exited"
    /\ lastError = Err(ErrInstall, "mysql-server")
    /\ tries = max_attempts

FatalMessages == {ErrSudo, ErrDpkg, ErrUpdate, ErrUpgrade, ErrRepo,
                  ErrInstall, ErrBackup}

FinishPcs == {"svc_restart", "svc_enable", "test", "summary", "done"}

\* C2 as stated: the run exits 1 only after the privilege check failed or
\* install_package used up its attempts; every other failure leaves the run
\* on its way to the summary and exit code 0.
C2_Original ==
    /\ exitCode = 1 => lastError.msg \in {ErrSudo, ErrInstall}
    /\ pc = "done" => exitCode = 0 /\ summary

\* C2 amended: the run exits 1 exactly through handle_error, whose seven
\* callers are the privilege check, the first dpkg repair, the second failed
\* update, the second failed upgrade, add-apt-repository, a failed backup
\* copy and install_package's exhaustion; failures of service restart or
\* enable and of the two configuration tests are logged warnings, and a run
\* that reaches the summary exits 0.
C2_FatalCauses ==
    /\ exitCode = 1 <=> pc = "exited"
    /\ pc = "exited" => lastError.msg \in FatalMessages
    /\ pc # "exited" => lastError = NoError
    /\ pc \in FinishPcs => exitCode # 1
    /\ pc = "done" <=> exitCode = 0
    /\ pc = "done" => summary

C2_Witness ==
    /\ pc = "exited"
    /\ exitCode = 1
    /\ lastError.msg = ErrBackup
    /\ warnings = 2

Written(f) == \E i \in 1..Len(trace) : trace[i] = Event("write", f)

HasBackupOf(f) ==
    \E t \in 1..MaxRuns : fs[Path(f, t)] = fs0[Path(f, 0)]

BackedUpFiles == {BackedUp[i] : i \in 1..Len(BackedUp)}

\* C3 as stated: every one of the seven files the run overwrites, when it
\* existed before the run, has a backup copy holding its previous content
\* once it is overwritten.
C3_Original ==
    \A f \in Targets :
        Written(f) /\ fs0[Path(f, 0)] # NoFile => HasBackupOf(f)

\* C3 amended: the four files handed to backup_config (resolver config,
\* DNS zone definitions, web vhost, file-share config) are overwritten only
\* with a backup copy of their previous content in place; the forward zone
\* file, the reverse zone file and the landing page are overwritten with no
\* backup made.
C3_BackupOfTheFour ==
    /\ \A f \in BackedUpFiles :
          Written(f) /\ fs0[Path(f, 0)] # NoFile => HasBackupOf(f)
    /\ \A f \in Targets \ BackedUpFiles :
          \A t \in 1..MaxRuns : fs[Path(f, t)] = NoFile

C3_Witness ==
    /\ Written("/etc/samba/smb.conf")
    /\ fs0[Path("/etc/samba/smb.conf", 0)] = OldContent("/etc/samba/smb.conf")
    /\ fs[Path("/etc/samba/smb.conf", run)] = OldContent("/etc/samba/smb.conf")
    /\ fs[Path("/etc/samba/smb.conf", 0)] = Rendered("/etc/samba/smb.conf")
    /\ Written("/etc/bind/smk.db")
    /\ fs0[Path("/etc/bind/smk.db", 0)] # NoFile

IsServiceStep(e) == e.stage \in {"restart", "enable", "test"}

ServiceSteps ==
    <<Event("restart", "bind9"), Event("enable", "bind9"),
      Event("restart", "apache2"), Event("enable", "apache2"),
      Event("restart", "mysql"), Event("enable", "mysql"),
      Event("restart", "smbd"), Event("enable", "smbd"),
      Event("test", "apache2ctl configtest"),
      Event("test", "named-checkconf")>>

\* C4: whichever restart and enable commands fail, every service has its
\* restart and then its enable attempted in list order, both tests run, the
\* summary is logged and the exit code is 0.
C4_ServiceFailuresTolerated ==
    /\ pc \in {"summary", "done"} =>
          SelectSeq(trace, IsServiceStep) = ServiceSteps
    /\ pc \in FinishPcs =>
          /\ exitCode # 1
          /\ \E n \in 0..Len(ServiceSteps) :
                SelectSeq(trace, IsServiceStep) = SubSeq(ServiceSteps, 1, n)
    /\ pc = "done" => summary /\ exitCode = 0

\* every one of the eight service commands and both tests failed, after a
\* failed first update and a failed first upgrade
C4_Witness ==
    /\ pc = "done"
    /\ warnings = 2 * Len(services) + 4
    /\ exitCode = 0

\* C5: nothing changes the host before all six inputs have been read in
\* order and validate_ip has accepted the IP entry; a failed privilege
\* check ends the run before the first prompt.
C5_CollectBeforeMutate ==
    /\ (mutated \/ fs # fs0 \/ trace # <<>> \/ tries > 0) =>
          /\ collected = Fields
          /\ Len(user_ip) >= 1
          /\ validate_ip(user_ip[Len(user_ip)])
          /\ user_ip[Len(user_ip)] = typed[ttyPos]
          /\ \A f \in DOMAIN Answers : sh[f] = Answers[f]
    /\ ~isRoot =>
          /\ pc \in {"start", "exited"}
          /\ ttyPos = 0
          /\ collected = <<>>
          /\ ~mutated

C5_Witness ==
    /\ mutated
    /\ ttyPos = 2
    /\ pc = "apt_clean"

MissingFields == Response(400, "error: Missing fields")

AnyAbsent ==
    body.name = JAbsent \/ body.email = JAbsent \/ body.message = JAbsent

\* C6 as stated: a request with name, email or message absent is answered
\* 400 Missing fields and sendMail is not called; every other request has
\* sendMail called exactly once and exactly one response, 200 when the call
\* succeeds and 500 Failed to send email when it fails.
C6_Claim ==
    /\ mpc = "awaiting" => ~AnyAbsent /\ sendMailCalls = 1 /\ responses = <<>>
    /\ mpc \in {"finished", "rejected"} =>
          IF AnyAbsent
          THEN responses = <<MissingFields>> /\ sendMailCalls = 0
          ELSE /\ sendMailCalls = 1
               /\ \/ responses = <<Response(200, "success: true")>>
                  \/ responses = <<Response(500, "error: Failed to send email")>>

\* C7 as stated: a second completed run with the same answers on the same
\* day leaves every file the run writes or appends to as the first run
\* left it.
C7_Claim ==
    (run = 2 /\ pc = "done") =>
        \A f \in Targets \cup {ApacheConf} :
            fs[Path(f, 0)] = fsFirst[Path(f, 0)]

\* four groups of one to three decimal digits, each of value at most 255
DottedQuadInRange(e) ==
    /\ MatchesQuad(e)
    /\ \A i \in 1..4 : BaseValue(SplitDot(e)[i], 10) <= 255

\* C8 as stated: validate_ip accepts exactly the entries of four groups of
\* one to three digits whose values are at most 255, and get_input returns
\* the accepted entry and nothing else.
C8_Claim ==
    /\ \A i \in 1..ttyPos :
          (pc = "get_plain" /\ i = ttyPos) <=> DottedQuadInRange(typed[i])
    /\ pc = "get_plain" =>
          /\ validate_ip(typed[ttyPos])
          /\ user_ip = <<typed[ttyPos]>>

\* C9 as stated: one to three attempts, none after a success, and a delay
\* of 5 between consecutive attempts and nowhere else; dpkg --configure -a
\* runs before the first attempt.
C9_Original ==
    /\ tries <= max_attempts
    /\ pc \in {"install_try", "install_sleep"} => repaired
    /\ pc = "install_try" =>
          tries = attempt - 1 /\ slept = RetryDelay * tries
    /\ pc = "install_sleep" =>
          tries = attempt - 1 /\ slept = RetryDelay * (tries - 1)
    /\ (tries >= 1 /\ pc \notin {"install_try", "install_sleep"}) =>
          slept = RetryDelay * (tries - 1)

\* C9 amended: one to three attempts, none after a success, and a delay of
\* 5 after every failed attempt, the third and last one included, so that
\* an exhausted install_package has slept three times before the run ends;
\* dpkg --configure -a runs before the first attempt.
C9_DelayAfterEachFailure ==
    /\ tries <= max_attempts
    /\ pc \in {"install_try", "install_sleep"} => repaired /\ ~installed
    /\ pc = "install_try" =>
          /\ attempt \in 1..max_attempts
          /\ tries = attempt - 1
          /\ slept = RetryDelay * tries
    /\ pc = "install_sleep" =>
          /\ tries >= 1
          /\ tries = attempt - 1
          /\ slept = RetryDelay * (tries - 1)
    /\ (pc = "pkg_loop" /\ tries >= 1) =>
          /\ repaired
          /\ tries = attempt
          /\ slept = RetryDelay * (tries - 1)
    /\ (pc = "exited" /\ tries >= 1) =>
          /\ Exhausted
          /\ tries = max_attempts
          /\ slept = RetryDelay * max_attempts

C9_Witness ==
    /\ pc = "exited"
    /\ Exhausted
    /\ tries = max_attempts
    /\ slept = RetryDelay * max_attempts

LandingPage == Event("write", "/var/www/index.php")

SmbConf == Event("write", "/etc/samba/smb.conf")

\* a write of one of the six rendered configuration files
IsRender(e) == e.stage = "write" /\ e # LandingPage

\* a step of the Service Reconciler
IsReconcile(e) ==
    e = LandingPage \/ e.stage \in {"run", "append", "restart", "enable"}

\* the Service Reconciler steps that run before smb.conf is written
BeforeSmbConf == {LandingPage, Event("run", "chown-chmod"),
                  Event("run", "useradd-passwd")}

FirstRenders == {Event("write", f) : f \in Targets} \ {LandingPage, SmbConf}

\* the place of a step in the trace, 0 when it has not run
Pos(e) ==
    IF \E i \in 1..Len(trace) : trace[i] = e
    THEN CHOOSE i \in 1..Len(trace) : trace[i] = e
    ELSE 0

Precedes(a, b) == Pos(a) > 0 /\ Pos(a) < Pos(b)

\* C10 as stated: every install precedes every render, and every render of
\* the six configuration files precedes every Service Reconciler step.
C10_Original ==
    /\ pc \in InstallPcs \cup {"pkg_loop"} => trace = <<>>
    /\ \A i, j \in 1..Len(trace) :
          IsRender(trace[i]) /\ IsReconcile(trace[j]) => i < j

\* C10 amended: every install precedes every render; the resolver, DNS
\* zones, forward zone, reverse zone and web vhost files are rendered
\* before every Service Reconciler step; the file-share config is rendered
\* after the landing page, the ownership and permission normalization and
\* the account creation, and before every other Service Reconciler step; no
\* step runs twice.
C10_SmbConfRenderedLate ==
    /\ pc \in InstallPcs \cup {"pkg_loop"} => trace = <<>>
    /\ \A j \in 1..Len(trace) :
          IsReconcile(trace[j]) =>
              /\ \A r \in FirstRenders : Precedes(r, trace[j])
              /\ IF trace[j] \in BeforeSmbConf
                 THEN ~Precedes(SmbConf, trace[j])
                 ELSE Precedes(SmbConf, trace[j])
    /\ \A i, j \in 1..Len(trace) :
          /\ IsRender(trace[i]) /\ trace[i] # SmbConf /\ IsReconcile(trace[j])
                => i < j
          /\ i # j => trace[i] # trace[j]
    /\ pc = "done" => \A e \in BeforeSmbConf : Precedes(e, SmbConf)

C10_Witness ==
    /\ pc = "done"
    /\ Precedes(LandingPage, SmbConf)
    /\ Precedes(SmbConf, Event("enable", "smbd"))

=============================================================================
